---- MODULE Spec2Model ----
(***************************************************************************)
(* Model of the collaborative-editing gateway (TextGateway): one in-memory *)
(* document per room, patches applied through diff-match-patch, accepted   *)
(* patches re-broadcast to the room, rejected ones answered with a full    *)
(* text:sync to the room.                                                  *)
(*                                                                         *)
(* Texts are sequences of one-character strings.  An encoded patch         *)
(* (patchText) is the sequence of its lines, each line split into its sign *)
(* character and the rest.                                                 *)
(***************************************************************************)
EXTENDS Integers, Sequences, FiniteSets, TLC

VARIABLES
    documents,  \* TextGateway.documents: Map<roomId, text>
    sockets,    \* connected clients (socket ids)
    rooms,      \* Socket.IO adapter: room key -> set of joined sockets
    out,        \* events emitted while handling the last inbound event
    ev,         \* history: the last inbound event and how its handler ended
    log,        \* history: per room, the decoded patches submitted so far
    owed,       \* history: per client and room, patches committed by others
                \*          since the last text:sync sent to that client
    got,        \* history: per client and room, text:patch events sent to
                \*          that client since that sync
    local,      \* client side: each client's editor, [open, text]
    up,         \* client -> server events in flight (FIFO per client)
    down        \* server -> client events in flight (FIFO per client)

server == <<documents, sockets, rooms, out>>
hist   == <<log, owed, got>>
net    == <<local, up, down>>
vars   == <<documents, sockets, rooms, out, ev, log, owed, got, local, up, down>>

-----------------------------------------------------------------------------
(* Populations and bounds *)

Clients == {"c1", "c2", "c3"}
TwoClients == {"c1", "c2"}
Rooms   == {"r1", "r2"}
\* The Map key and room name produced by an absent roomId (JS undefined).
Undefined == "undefined"
RoomKeys == Rooms \cup {Undefined}

\* Most patches recorded per room in the history specification.
MaxLog == 3
\* Most patches owed to one client of one room in the delivery specification.
MaxOwed == 2
\* Most events in flight per direction and client in the network specification.
MaxQueue == 1

-----------------------------------------------------------------------------
(* Text helpers (JavaScript string semantics on sequences) *)

Min(a, b) == IF a < b THEN a ELSE b
Max(a, b) == IF a > b THEN a ELSE b

\* String.prototype.substring(a, b): clamps to [0, length], 0-based, end-exclusive.
Substring(s, a, b) ==
    LET ca == Max(0, Min(a, Len(s)))
        cb == Max(0, Min(b, Len(s)))
    IN  SubSeq(s, Min(ca, cb) + 1, Max(ca, cb))

\* Locations (0-based) at which pattern occurs in text.
Occurrences(text, pattern) ==
    { i \in 0..(Len(text) - Len(pattern)) :
        SubSeq(text, i + 1, i + Len(pattern)) = pattern }

Chars(s) == { s[i] : i \in 1..Len(s) }

-----------------------------------------------------------------------------
(* The patch engine: diff-match-patch as TextGateway calls it.             *)
(* A patch object is [diffs, start1, start2, length1, length2]; a diff is  *)
(* [op, text].  Matching is modelled where match_main decides without      *)
(* approximate scoring: the pattern occurs exactly (at the expected        *)
(* location, or once elsewhere), or more than half of its characters do    *)
(* not occur in the text at all, which no alignment within Match_Threshold *)
(* can absorb.  Every other case yields Approximate, and a handler takes   *)
(* only inputs whose matches are all decided (exact).                      *)

\* A line of an encoded patch: its sign character, the rest of the line, and
\* for a header line "@@ -s1,l1 +s2,l2 @@" its four numbers (l = -1: omitted).
Line(sign, text) == [sign |-> sign, text |-> text, s1 |-> 0, l1 |-> 0, s2 |-> 0, l2 |-> 0]
Header(s1, l1, s2, l2) ==
    [sign |-> "@", text |-> <<>>, s1 |-> s1, l1 |-> l1, s2 |-> s2, l2 |-> l2]

\* diff_match_patch.Match_MaxBits
Match_MaxBits == 32
\* diff_match_patch.Match_Distance
Match_Distance == 1000
\* The padding patch_addPadding builds: Patch_Margin characters \x01..\x04.
nullPadding == <<"\\x01", "\\x02", "\\x03", "\\x04">>
Approximate == 0 - 2

Diff(op, text) == [op |-> op, text |-> text]

RECURSIVE diff_text1(_)
diff_text1(diffs) ==
    IF diffs = <<>> THEN <<>>
    ELSE (IF Head(diffs).op # "INSERT" THEN Head(diffs).text ELSE <<>>)
         \o diff_text1(Tail(diffs))

RECURSIVE diff_text2(_)
diff_text2(diffs) ==
    IF diffs = <<>> THEN <<>>
    ELSE (IF Head(diffs).op # "DELETE" THEN Head(diffs).text ELSE <<>>)
         \o diff_text2(Tail(diffs))

\* The header's start and length as patch_fromText reads them.
HeaderStart(s, l)  == IF l = 0 THEN s ELSE s - 1
HeaderLength(s, l) == IF l = 0 - 1 THEN 1 ELSE l

\* The body lines of one patch from line i on: [ok, diffs, next].
RECURSIVE ParseBody(_, _)
ParseBody(lines, i) ==
    IF i > Len(lines) THEN [ok |-> TRUE, diffs |-> <<>>, next |-> i]
    ELSE LET l == lines[i] IN
         CASE l.sign = "@" -> [ok |-> TRUE, diffs |-> <<>>, next |-> i]
           [] l.sign = ""  -> ParseBody(lines, i + 1)
           [] l.sign \in {"+", "-", " "} ->
                LET r  == ParseBody(lines, i + 1)
                    op == CASE l.sign = "+" -> "INSERT"
                            [] l.sign = "-" -> "DELETE"
                            [] OTHER        -> "EQUAL"
                IN  [r EXCEPT !.diffs = <<Diff(op, l.text)>> \o @]
           [] OTHER -> [ok |-> FALSE, diffs |-> <<>>, next |-> i]

RECURSIVE ParsePatches(_, _)
ParsePatches(lines, i) ==
    IF i > Len(lines) THEN [ok |-> TRUE, patches |-> <<>>]
    ELSE IF lines[i].sign # "@" THEN [ok |-> FALSE, patches |-> <<>>]
    ELSE LET h    == lines[i]
             body == ParseBody(lines, i + 1)
             rest == ParsePatches(lines, body.next)
             p    == [diffs   |-> body.diffs,
                      start1  |-> HeaderStart(h.s1, h.l1),
                      start2  |-> HeaderStart(h.s2, h.l2),
                      length1 |-> HeaderLength(h.s1, h.l1),
                      length2 |-> HeaderLength(h.s2, h.l2)]
         IN  IF body.ok /\ rest.ok
             THEN [ok |-> TRUE, patches |-> <<p>> \o rest.patches]
             ELSE [ok |-> FALSE, patches |-> <<>>]

\* patch_fromText(textline): [ok, patches]; ok = FALSE is the thrown Error.
\* patchText is [present, lines]; an absent or empty text is falsy and
\* decodes to no patches.
patch_fromText(patchText) ==
    IF ~patchText.present \/ patchText.lines = <<>>
    THEN [ok |-> TRUE, patches |-> <<>>]
    ELSE ParsePatches(patchText.lines, 1)

PadLen == Len(nullPadding)

PadFront(p) ==
    IF p.diffs = <<>> \/ p.diffs[1].op # "EQUAL"
    THEN [p EXCEPT !.diffs = <<Diff("EQUAL", nullPadding)>> \o @,
                   !.start1 = @ - PadLen, !.start2 = @ - PadLen,
                   !.length1 = @ + PadLen, !.length2 = @ + PadLen]
    ELSE IF PadLen > Len(p.diffs[1].text)
    THEN LET extra == PadLen - Len(p.diffs[1].text) IN
         [p EXCEPT !.diffs[1].text = Substring(nullPadding, Len(@), PadLen) \o @,
                   !.start1 = @ - extra, !.start2 = @ - extra,
                   !.length1 = @ + extra, !.length2 = @ + extra]
    ELSE p

PadBack(p) ==
    LET n == Len(p.diffs) IN
    IF n = 0 \/ p.diffs[n].op # "EQUAL"
    THEN [p EXCEPT !.diffs = @ \o <<Diff("EQUAL", nullPadding)>>,
                   !.length1 = @ + PadLen, !.length2 = @ + PadLen]
    ELSE IF PadLen > Len(p.diffs[n].text)
    THEN LET extra == PadLen - Len(p.diffs[n].text) IN
         [p EXCEPT !.diffs[n].text = @ \o Substring(nullPadding, 0, extra),
                   !.length1 = @ + extra, !.length2 = @ + extra]
    ELSE p

\* patch_addPadding(patches), for a non-empty list.
patch_addPadding(patches) ==
    LET bumped == [x \in 1..Len(patches) |->
                     [patches[x] EXCEPT !.start1 = @ + PadLen, !.start2 = @ + PadLen]]
        front  == [bumped EXCEPT ![1] = PadFront(@)]
    IN  [front EXCEPT ![Len(patches)] = PadBack(@)]

\* match_bitap(text, pattern, loc), where it is decided without scoring
\* approximate alignments.
match_bitap(text, pattern, loc) ==
    LET occ    == Occurrences(text, pattern)
        absent == Cardinality({ i \in 1..Len(pattern) : pattern[i] \notin Chars(text) })
    IN  IF Cardinality(occ) = 1
        THEN LET pos  == CHOOSE i \in occ : TRUE
                 dist == IF pos > loc THEN pos - loc ELSE loc - pos
             IN  IF dist * Len(pattern) < Match_Distance /\ Len(pattern) <= Match_MaxBits
                 THEN pos ELSE Approximate
        ELSE IF occ = {} /\ 2 * absent > Len(pattern) THEN 0 - 1
        ELSE Approximate

\* match_main(text, pattern, loc)
match_main(text, pattern, loc) ==
    LET l == Max(0, Min(loc, Len(text))) IN
    IF text = pattern THEN 0
    ELSE IF Len(text) = 0 THEN 0 - 1
    ELSE IF Substring(text, l, l + Len(pattern)) = pattern THEN l
    ELSE match_bitap(text, pattern, l)

\* The loop of patch_apply over the padded patches: [text, results, exact].
RECURSIVE ApplyFrom(_, _, _, _)
ApplyFrom(patches, x, text, delta) ==
    IF x > Len(patches) THEN [text |-> text, results |-> <<>>, exact |-> TRUE]
    ELSE LET p            == patches[x]
             expected_loc == p.start2 + delta
             text1        == diff_text1(p.diffs)
             start_loc    == match_main(text, text1, expected_loc)
         IN  IF p.length1 > Match_MaxBits \/ Len(text1) > Match_MaxBits
                \/ start_loc = Approximate
             THEN [text |-> text, results |-> <<>>, exact |-> FALSE]
             ELSE IF start_loc = 0 - 1
             THEN LET r == ApplyFrom(patches, x + 1, text,
                                     delta - (p.length2 - p.length1))
                  IN  [r EXCEPT !.results = <<FALSE>> \o @]
             ELSE LET t == Substring(text, 0, start_loc) \o diff_text2(p.diffs)
                           \o Substring(text, start_loc + Len(text1), Len(text))
                      r == ApplyFrom(patches, x + 1, t, start_loc - expected_loc)
                  IN  [r EXCEPT !.results = <<TRUE>> \o @]

\* patch_apply(patches, text): [text, results] (and whether every match was
\* decided exactly).
patch_apply(patches, text) ==
    IF patches = <<>> THEN [text |-> text, results |-> <<>>, exact |-> TRUE]
    ELSE LET r == ApplyFrom(patch_addPadding(patches), 1,
                            nullPadding \o text \o nullPadding, 0)
         IN  [r EXCEPT !.text = Substring(@, PadLen, Len(@) - PadLen)]

\* Mutant: results.some((res) => res).
SomeHunk(results) == \E i \in 1..Len(results) : results[i]

\* Mutant: a patch without hunks counts as failed.
EveryOfSome(results) == results # <<>> /\ \A i \in 1..Len(results) : results[i]

\* results.every((res) => res)
Every(results) == \A i \in 1..Len(results) : results[i]

-----------------------------------------------------------------------------
(* Inputs: the texts and encoded patches the clients of the model send.    *)
(* Each patch is what patch_toText(patch_make(base, target)) yields for    *)
(* its base and target, except the hand-written ones noted.                *)

W   == <<"a", "b", "c", "d", "e", "f", "g", "h", "i">>
WX  == <<"a", "b", "c", "d", "X", "e", "f", "g", "h", "i">>
WY  == W \o <<"Y">>
WXY == WX \o <<"Y">>
Zs  == <<"z", "z", "z", "z", "z", "z", "z", "z", "z">>

Present(lines) == [present |-> TRUE, lines |-> lines]
\* patchText missing from the payload (undefined).
AbsentText == [present |-> FALSE, lines |-> <<>>]
\* The empty string.
EmptyText == Present(<<>>)

\* "" -> W
PNew == Present(<<Header(0, 0, 1, 9), Line("+", W), Line("", <<>>)>>)
\* W -> ""
PDel == Present(<<Header(1, 9, 0, 0), Line("-", W), Line("", <<>>)>>)
\* W -> WX: an insertion in the middle, four and five characters of context.
PMid == Present(<<Header(1, 9, 1, 10), Line(" ", <<"a", "b", "c", "d">>),
                  Line("+", <<"X">>), Line(" ", <<"e", "f", "g", "h", "i">>),
                  Line("", <<>>)>>)
\* W -> WY: an insertion at the end, eight characters of context before it.
PEnd == Present(<<Header(2, 8, 2, 9),
                  Line(" ", <<"b", "c", "d", "e", "f", "g", "h", "i">>),
                  Line("+", <<"Y">>), Line("", <<>>)>>)
\* Hand-written, two hunks: the hunk of PMid, then the deletion of a text
\* that occurs in no document.
PTwo == Present(<<Header(1, 9, 1, 10), Line(" ", <<"a", "b", "c", "d">>),
                  Line("+", <<"X">>), Line(" ", <<"e", "f", "g", "h", "i">>),
                  Header(21, 9, 20, 0), Line("-", Zs), Line("", <<>>)>>)
\* Structurally invalid: a body line with no header before it.
PNoHeader == Present(<<Line("+", W)>>)
\* Structurally invalid: a body line whose sign is none of ' ', '+', '-', '@'.
PBadSign == Present(<<Header(0, 0, 1, 9), Line("?", W)>>)

ValidTexts   == {PNew, PDel, PMid, PEnd, PTwo, EmptyText}
InvalidTexts == {PNoHeader, PBadSign}
PatchTexts   == ValidTexts \cup InvalidTexts \cup {AbsentText}

-----------------------------------------------------------------------------
(* The gateway's state and handlers *)

EmptyMap == [k \in {} |-> <<>>]

\* Mutant: a missing room reads as a non-empty text.
GetOrStale(m, roomId) == IF roomId \in DOMAIN m THEN m[roomId] ELSE <<"a">>

\* Mutant: the write is dropped when the room already has a document.
MapSetIfAbsent(m, k, v) == [x \in DOMAIN m \cup {k} |-> IF x \in DOMAIN m THEN m[x] ELSE v]

\* Map.prototype.set
MapSet(m, k, v) == [x \in DOMAIN m \cup {k} |-> IF x = k THEN v ELSE m[x]]

\* this.documents.get(roomId) || ''
GetOrEmpty(m, roomId) == IF roomId \in DOMAIN m THEN m[roomId] ELSE <<>>

\* The text an operation on roomId reads now.
Doc(roomId) == GetOrEmpty(documents, roomId)

\* An emitted event; `to` is the set of sockets the adapter delivers it to.
\* target says how it was addressed: "client" (client.emit), "others"
\* (client.to(room).emit) or "room" (server.to(room).emit).
Emitted(event, target, roomId, sender, to, text, patchText) ==
    [event |-> event, target |-> target, roomId |-> roomId, sender |-> sender,
     to |-> to, text |-> text, patchText |-> patchText]

\* Mutant: this.server.to(roomId).emit('text:sync', doc) where the code
\* answers the requesting socket.
EmitSyncToRoom(client, roomId, doc) ==
    Emitted("text:sync", "room", roomId, client, rooms[roomId], doc, AbsentText)

\* client.emit('text:sync', doc)
EmitToClient(client, roomId, doc) ==
    Emitted("text:sync", "client", roomId, client, {client}, doc, AbsentText)

\* Mutant: this.server.to(roomId).emit('text:patch', patchText), sender included.
EmitPatchToRoom(client, roomId, patchText) ==
    Emitted("text:patch", "room", roomId, client, rooms[roomId], <<>>, patchText)

\* Mutant: client.emit('text:patch', patchText), back to the sender alone.
EmitPatchToSender(client, roomId, patchText) ==
    Emitted("text:patch", "client", roomId, client, {client}, <<>>, patchText)

\* Mutant: client.broadcast.emit('text:patch', patchText), every other socket
\* whatever its rooms.
BroadcastPatch(client, roomId, patchText) ==
    Emitted("text:patch", "others", roomId, client, sockets \ {client},
            <<>>, patchText)

\* client.to(roomId).emit('text:patch', patchText)
EmitToOthers(client, roomId, patchText) ==
    Emitted("text:patch", "others", roomId, client, rooms[roomId] \ {client},
            <<>>, patchText)

\* Mutant: client.emit('text:sync', doc), the sender alone is resynced.
EmitSyncToSender(client, roomId, doc) ==
    Emitted("text:sync", "client", roomId, client, {client}, doc, AbsentText)

\* this.server.to(roomId).emit('text:sync', doc)
EmitToRoom(client, roomId, doc) ==
    Emitted("text:sync", "room", roomId, client, rooms[roomId], doc, AbsentText)

\* An inbound event as handled: who sent it, for which room, whether the
\* sender was in that room when it arrived, and whether the handler threw.
Event(op, client, roomId, patchText, threw) ==
    [op |-> op, client |-> client, roomId |-> roomId, patchText |-> patchText,
     member |-> client \in rooms[roomId], threw |-> threw]

\* The payload of a text:patch message: data itself may be missing, and so
\* may either of its fields.
Data(roomId, patchText) == [present |-> TRUE, roomId |-> roomId, patchText |-> patchText]
NoData == [present |-> FALSE, roomId |-> Undefined, patchText |-> AbsentText]

Init ==
    /\ documents = EmptyMap
    /\ sockets = {}
    /\ rooms = [r \in RoomKeys |-> {}]
    /\ out = <<>>
    /\ ev = [op |-> "init", client |-> "none", roomId |-> Undefined,
             patchText |-> AbsentText, member |-> FALSE, threw |-> FALSE]
    /\ log = [r \in RoomKeys |-> <<>>]
    /\ owed = [c \in Clients |-> [r \in RoomKeys |-> <<>>]]
    /\ got = [c \in Clients |-> [r \in RoomKeys |-> <<>>]]
    /\ local = [c \in Clients |-> [open |-> FALSE, text |-> <<>>]]
    /\ up = [c \in Clients |-> <<>>]
    /\ down = [c \in Clients |-> <<>>]

handleConnection(client) ==
    /\ client \notin sockets
    /\ sockets' = sockets \cup {client}
    /\ out' = <<>>
    /\ UNCHANGED <<documents, rooms>>

\* Mutant: a disconnect deletes the document of every room it leaves empty.
handleDisconnectEvicts(client) ==
    /\ client \in sockets
    /\ sockets' = sockets \ {client}
    /\ rooms' = [r \in RoomKeys |-> rooms[r] \ {client}]
    /\ out' = <<>>
    /\ documents' = [r \in {k \in DOMAIN documents : rooms[k] \ {client} # {}}
                       |-> documents[r]]

\* Socket.IO takes a closing socket out of every room; the handler only logs.
handleDisconnect(client) ==
    /\ client \in sockets
    /\ sockets' = sockets \ {client}
    /\ rooms' = [r \in RoomKeys |-> rooms[r] \ {client}]
    /\ out' = <<>>
    /\ UNCHANGED documents

\* Mutant: this.documents.set(roomId, '') without the has() test.
MaterializedAlways(m, roomId) == MapSet(m, roomId, <<>>)

\* if (!this.documents.has(roomId)) this.documents.set(roomId, '')
Materialized(m, roomId) ==
    IF roomId \notin DOMAIN m THEN MapSet(m, roomId, <<>>) ELSE m

handleJoinRoom(client, roomId) ==
    /\ client \in sockets
    /\ rooms' = [rooms EXCEPT ![roomId] = @ \cup {client}]
    /\ LET doc == GetOrEmpty(documents, roomId) IN
       /\ documents' = Materialized(documents, roomId)
       /\ out' = <<EmitToClient(client, roomId, doc)>>
    /\ UNCHANGED sockets

\* Mutant: the text kept for the resync is the one patch_apply returned.
PatchOutcomePartial(m, data) ==
    LET doc     == GetOrEmpty(m, data.roomId)
        decoded == patch_fromText(data.patchText)
        applied == patch_apply(decoded.patches, doc)
    IN  IF ~data.present \/ ~decoded.ok
        THEN [threw |-> TRUE, exact |-> TRUE, success |-> FALSE,
              doc |-> doc, newDoc |-> doc]
        ELSE [threw |-> FALSE, exact |-> applied.exact,
              success |-> Every(applied.results),
              doc |-> applied.text, newDoc |-> applied.text]

\* What handleTextPatch computes before it branches: [threw, exact, success,
\* doc, newDoc].
PatchOutcome(m, data) ==
    LET doc     == GetOrEmpty(m, data.roomId)
        decoded == patch_fromText(data.patchText)
        applied == patch_apply(decoded.patches, doc)
    IN  IF ~data.present \/ ~decoded.ok
        THEN [threw |-> TRUE, exact |-> TRUE, success |-> FALSE,
              doc |-> doc, newDoc |-> doc]
        ELSE [threw |-> FALSE, exact |-> applied.exact,
              success |-> Every(applied.results),
              doc |-> doc, newDoc |-> applied.text]

\* Mutant: a patch from a socket outside the room is dropped.
handleTextPatchOfMember(client, data) ==
    LET o == PatchOutcome(documents, data) IN
    /\ client \in sockets
    /\ o.exact
    /\ IF o.threw \/ client \notin rooms[data.roomId]
       THEN /\ out' = <<>>
            /\ UNCHANGED documents
       ELSE IF o.success
       THEN /\ documents' = MapSet(documents, data.roomId, o.newDoc)
            /\ out' = <<EmitToOthers(client, data.roomId, data.patchText)>>
       ELSE /\ out' = <<EmitToRoom(client, data.roomId, o.doc)>>
            /\ UNCHANGED documents
    /\ UNCHANGED <<sockets, rooms>>

handleTextPatch(client, data) ==
    LET o == PatchOutcome(documents, data) IN
    /\ client \in sockets
    /\ o.exact
    /\ IF o.threw
       THEN /\ out' = <<>>
            /\ UNCHANGED documents
       ELSE IF o.success
       THEN /\ documents' = MapSet(documents, data.roomId, o.newDoc)
            /\ out' = <<EmitToOthers(client, data.roomId, data.patchText)>>
       ELSE /\ out' = <<EmitToRoom(client, data.roomId, o.doc)>>
            /\ UNCHANGED documents
    /\ UNCHANGED <<sockets, rooms>>

handleRequestSync(client, roomId) ==
    /\ client \in sockets
    /\ out' = <<EmitToClient(client, roomId, GetOrEmpty(documents, roomId))>>
    /\ UNCHANGED <<documents, sockets, rooms>>

\* One inbound event handled to completion and recorded in ev; the other
\* histories and the client side stay as they are.
Connect(c) ==
    /\ handleConnection(c)
    /\ ev' = Event("connect", c, Undefined, AbsentText, FALSE)
    /\ UNCHANGED <<hist, net>>
Disconnect(c) ==
    /\ handleDisconnect(c)
    /\ ev' = Event("disconnect", c, Undefined, AbsentText, FALSE)
    /\ UNCHANGED <<hist, net>>
JoinRoom(c, r) ==
    /\ handleJoinRoom(c, r)
    /\ ev' = Event("join:room", c, r, AbsentText, FALSE)
    /\ UNCHANGED <<hist, net>>
TextPatch(c, d) ==
    /\ handleTextPatch(c, d)
    /\ ev' = Event("text:patch", c, d.roomId, d.patchText,
                   PatchOutcome(documents, d).threw)
    /\ UNCHANGED <<hist, net>>
RequestSync(c, r) ==
    /\ handleRequestSync(c, r)
    /\ ev' = Event("text:request_sync", c, r, AbsentText, FALSE)
    /\ UNCHANGED <<hist, net>>

\* Three clients on one room, every payload of the vocabulary.
OneRoom == {"r1"}
DataInputs == {NoData} \cup { Data(r, p) : r \in OneRoom, p \in PatchTexts }

Next ==
    \/ \E c \in Clients : Connect(c)
    \/ \E c \in Clients : Disconnect(c)
    \/ \E c \in Clients, r \in OneRoom : JoinRoom(c, r)
    \/ \E c \in Clients, d \in DataInputs : TextPatch(c, d)
    \/ \E c \in Clients, r \in OneRoom : RequestSync(c, r)

Spec == Init /\ [][Next]_vars

\* Two clients on two rooms, and payloads whose roomId is missing.
RoomTexts == {PNew, PDel, PTwo, AbsentText, PNoHeader}
RoomInputs == {NoData} \cup { Data(r, p) : r \in RoomKeys, p \in RoomTexts }

NextRooms ==
    \/ \E c \in TwoClients : Connect(c)
    \/ \E c \in TwoClients : Disconnect(c)
    \/ \E c \in TwoClients, r \in Rooms : JoinRoom(c, r)
    \/ \E c \in TwoClients, d \in RoomInputs : TextPatch(c, d)
    \/ \E c \in TwoClients, r \in RoomKeys : RequestSync(c, r)

SpecRooms == Init /\ [][NextRooms]_vars

-----------------------------------------------------------------------------
(* Histories.  They record what arrived and what was sent; no handler      *)
(* reads them.                                                             *)

\* Every text:patch whose patchText decoded, per room, in arrival order.
LoggedConnect(c)    == handleConnection(c) /\ UNCHANGED <<ev, hist, net>>
LoggedDisconnect(c) == handleDisconnect(c) /\ UNCHANGED <<ev, hist, net>>
LoggedJoinRoom(c, r) == handleJoinRoom(c, r) /\ UNCHANGED <<ev, hist, net>>
LoggedRequestSync(c, r) == handleRequestSync(c, r) /\ UNCHANGED <<ev, hist, net>>
LoggedPatch(c, d) ==
    /\ handleTextPatch(c, d)
    /\ IF PatchOutcome(documents, d).threw
       THEN UNCHANGED log
       ELSE /\ \A r \in RoomKeys : Len(log[r]) < MaxLog
            /\ log' = [log EXCEPT ![d.roomId] = Append(@, d.patchText)]
    /\ UNCHANGED <<ev, owed, got, net>>

LogTexts == {PNew, PDel, PMid, PTwo, EmptyText, PNoHeader}
LogInputs == { Data(r, p) : r \in OneRoom, p \in LogTexts }

NextLog ==
    \/ \E c \in TwoClients : LoggedConnect(c)
    \/ \E c \in TwoClients : LoggedDisconnect(c)
    \/ \E c \in TwoClients, r \in OneRoom : LoggedJoinRoom(c, r)
    \/ \E c \in TwoClients, d \in LogInputs : LoggedPatch(c, d)
    \/ \E c \in TwoClients, r \in OneRoom : LoggedRequestSync(c, r)

SpecLog == Init /\ [][NextLog]_vars

\* Per client and room since the last text:sync for the room sent to the
\* client: the patches of other clients committed to the room (owed), and
\* the text:patch events for the room sent to the client (got).
SyncedTo(c, r) ==
    \E i \in 1..Len(out') :
        out'[i].event = "text:sync" /\ out'[i].roomId = r /\ c \in out'[i].to

Track(c, r, h, add, p) ==
    IF SyncedTo(c, r) THEN <<>>
    ELSE IF add THEN Append(h, p)
    ELSE h

\* committed: the handled event was a text:patch of client s for room k
\* with patchText p that replaced the document.
Tracked(committed, s, k, p) ==
    /\ owed' = [c \in Clients |-> [r \in RoomKeys |->
                  Track(c, r, owed[c][r], committed /\ r = k /\ c # s, p)]]
    /\ got' = [c \in Clients |-> [r \in RoomKeys |->
                  Track(c, r, got[c][r],
                        \E i \in 1..Len(out') :
                            /\ out'[i].event = "text:patch"
                            /\ out'[i].roomId = r
                            /\ c \in out'[i].to,
                        IF out' = <<>> THEN p ELSE out'[1].patchText)]]
    /\ \A c \in Clients, r \in RoomKeys : Len(owed'[c][r]) <= MaxOwed
    /\ UNCHANGED <<ev, log, net>>

SentConnect(c)      == handleConnection(c) /\ Tracked(FALSE, c, Undefined, AbsentText)
SentDisconnect(c)   == handleDisconnect(c) /\ Tracked(FALSE, c, Undefined, AbsentText)
SentJoinRoom(c, r)  == handleJoinRoom(c, r) /\ Tracked(FALSE, c, r, AbsentText)
SentRequestSync(c, r) == handleRequestSync(c, r) /\ Tracked(FALSE, c, r, AbsentText)
SentTextPatch(c, d) ==
    /\ handleTextPatch(c, d)
    /\ Tracked(~PatchOutcome(documents, d).threw /\ PatchOutcome(documents, d).success,
               c, d.roomId, d.patchText)

SentTexts == {PNew, PDel, PMid, PTwo}
SentInputs == { Data(r, p) : r \in OneRoom, p \in SentTexts }

NextSent ==
    \/ \E c \in TwoClients : SentConnect(c)
    \/ \E c \in TwoClients : SentDisconnect(c)
    \/ \E c \in TwoClients, r \in OneRoom : SentJoinRoom(c, r)
    \/ \E c \in TwoClients, d \in SentInputs : SentTextPatch(c, d)
    \/ \E c \in TwoClients, r \in OneRoom : SentRequestSync(c, r)

SpecSent == Init /\ [][NextSent]_vars

-----------------------------------------------------------------------------
(* Clients and the connection between them and the gateway.                *)
(* A client keeps one editor text; text:sync replaces it and text:patch is *)
(* applied to it, in the order delivered.  An edit is a patch made from    *)
(* the editor text to a new text: the editor takes the new text at once    *)
(* and the patch travels to the gateway.  Each direction of a connection   *)
(* delivers in order.                                                      *)

\* The edits of the model: patch_make(base, target) for these pairs.
Edit(base, target, patchText) == [base |-> base, target |-> target, patchText |-> patchText]
Edits == {Edit(<<>>, W, PNew), Edit(W, <<>>, PDel), Edit(W, WX, PMid), Edit(W, WY, PEnd)}

Message(op, roomId, patchText) == [op |-> op, roomId |-> roomId, patchText |-> patchText]

\* socket.emit(op, ...) on the client.
ClientSend(c, op, roomId, patchText) ==
    /\ c \in sockets
    /\ Len(up[c]) < MaxQueue
    /\ up' = [up EXCEPT ![c] = Append(@, Message(op, roomId, patchText))]

ClientJoin(c, r) ==
    /\ ClientSend(c, "join:room", r, AbsentText)
    /\ UNCHANGED <<server, ev, hist, local, down>>

ClientRequestSync(c, r) ==
    /\ ClientSend(c, "text:request_sync", r, AbsentText)
    /\ UNCHANGED <<server, ev, hist, local, down>>

ClientEdit(c, r, e) ==
    /\ local[c].open
    /\ local[c].text = e.base
    /\ ClientSend(c, "text:patch", r, e.patchText)
    /\ local' = [local EXCEPT ![c].text = e.target]
    /\ UNCHANGED <<server, ev, hist, down>>

\* The events of out', appended to the connections of their recipients.
RECURSIVE For(_, _)
For(c, events) ==
    IF events = <<>> THEN <<>>
    ELSE (IF c \in Head(events).to THEN <<Head(events)>> ELSE <<>>)
         \o For(c, Tail(events))

\* The gateway takes the next event of a connection and handles it.
Receive(c) ==
    /\ up[c] # <<>>
    /\ LET m == Head(up[c]) IN
       CASE m.op = "join:room" -> handleJoinRoom(c, m.roomId)
         [] m.op = "text:request_sync" -> handleRequestSync(c, m.roomId)
         [] OTHER -> handleTextPatch(c, Data(m.roomId, m.patchText))
    /\ up' = [up EXCEPT ![c] = Tail(@)]
    /\ down' = [x \in Clients |-> down[x] \o For(x, out')]
    /\ \A x \in Clients : Len(down'[x]) <= MaxQueue
    /\ UNCHANGED <<ev, hist, local>>

\* A client takes the next event of its connection.
ClientReceive(c) ==
    /\ down[c] # <<>>
    /\ down' = [down EXCEPT ![c] = Tail(@)]
    /\ LET e == Head(down[c]) IN
       IF e.event = "text:sync"
       THEN local' = [local EXCEPT ![c] = [open |-> TRUE, text |-> e.text]]
       ELSE LET a == patch_apply(patch_fromText(e.patchText).patches, local[c].text)
            IN  /\ a.exact
                /\ local' = [local EXCEPT ![c].text = a.text]
    /\ UNCHANGED <<server, ev, hist, up>>

NetConnect(c) == handleConnection(c) /\ UNCHANGED <<ev, hist, net>>

NextNet ==
    \/ \E c \in TwoClients : NetConnect(c)
    \/ \E c \in TwoClients, r \in OneRoom : ClientJoin(c, r)
    \/ \E c \in TwoClients, r \in OneRoom : ClientRequestSync(c, r)
    \/ \E c \in TwoClients, r \in OneRoom, e \in Edits : ClientEdit(c, r, e)
    \/ \E c \in TwoClients : Receive(c)
    \/ \E c \in TwoClients : ClientReceive(c)

SpecNet == Init /\ [][NextNet]_vars

-----------------------------------------------------------------------------
(* Properties *)

\* The per-hunk outcomes of the patch of the step's event against the text of
\* its room before the step, read off the patch engine directly.
HunkResults ==
    patch_apply(patch_fromText(ev'.patchText).patches,
                IF ev'.roomId \in DOMAIN documents
                THEN documents[ev'.roomId] ELSE <<>>)
PatchStep    == ev'.op = "text:patch" /\ ~ev'.threw
RejectedStep == PatchStep /\ \E i \in 1..Len(HunkResults.results) : ~HunkResults.results[i]
AcceptedStep == PatchStep /\ \A i \in 1..Len(HunkResults.results) : HunkResults.results[i]

\* The same outcomes in the state after a rejected patch, whose document is
\* the one the patch was applied to.
LastResults ==
    patch_apply(patch_fromText(ev.patchText).patches,
                IF ev.roomId \in DOMAIN documents
                THEN documents[ev.roomId] ELSE <<>>)

\* C1 (all-or-nothing): a text:patch of which at least one hunk fails leaves
\* the text stored for every room, its own included, as it was.
C1_AllOrNothing ==
    [][RejectedStep => documents' = documents]_vars

\* A patch was rejected whose first hunk applied: the engine returned a text
\* that differs from the stored one.
C1_Witness ==
    /\ ev.op = "text:patch" /\ ~ev.threw
    /\ \E i \in 1..Len(LastResults.results) : ~LastResults.results[i]
    /\ LastResults.text # Doc(ev.roomId)
    /\ Doc(ev.roomId) = W

\* C3 (broadcast exclusivity): a text:patch that decodes emits exactly one
\* event: either text:patch addressed to the room except the sender, and the
\* document becomes the patched text, or text:sync addressed to the whole
\* room, and the documents stay as they were.
C3_ExactlyOneOutput ==
    [][PatchStep =>
         /\ Len(out') = 1
         /\ \/ /\ out'[1].event = "text:patch" /\ out'[1].target = "others"
               /\ out'[1].roomId = ev'.roomId /\ out'[1].sender = ev'.client
               /\ documents' = MapSet(documents, ev'.roomId, HunkResults.text)
            \/ /\ out'[1].event = "text:sync" /\ out'[1].target = "room"
               /\ out'[1].roomId = ev'.roomId
               /\ documents' = documents]_vars

\* Both outputs occur: this is the rejected one, with two members to resync.
C3_Witness ==
    /\ ev.op = "text:patch" /\ ~ev.threw
    /\ Len(out) = 1 /\ out[1].event = "text:sync" /\ out[1].target = "room"
    /\ Cardinality(out[1].to) = 2

\* C4: an accepted text:patch is re-emitted as text:patch with the submitted
\* patchText, to exactly the members of the room other than the sender.
C4_PatchToOthers ==
    [][AcceptedStep =>
         /\ Len(out') = 1
         /\ out'[1].event = "text:patch"
         /\ out'[1].patchText = ev'.patchText
         /\ out'[1].to = rooms[ev'.roomId] \ {ev'.client}
         /\ ev'.client \notin out'[1].to]_vars

\* A member's patch was accepted while the room had another member and the
\* third client was outside it.
C4_Witness ==
    /\ ev.op = "text:patch" /\ ~ev.threw /\ ev.member
    /\ Len(out) = 1 /\ out[1].event = "text:patch"
    /\ Cardinality(out[1].to) = 1
    /\ Cardinality(rooms[ev.roomId]) = 2
    /\ Cardinality(sockets) = 3
    /\ Doc(ev.roomId) = WX

\* C5, as claimed: a rejected text:patch sends text:sync with the unchanged
\* text to every member of the room and to the sender.
C5_SyncReachesSender ==
    [][RejectedStep =>
         /\ Len(out') = 1
         /\ out'[1].event = "text:sync"
         /\ out'[1].text = Doc(ev'.roomId)
         /\ out'[1].to = rooms[ev'.roomId] \cup {ev'.client}]_vars

\* C8, as claimed: a text:patch whose payload, roomId or patchText is absent
\* or malformed changes no document and reaches no client.
MalformedStep ==
    /\ ev'.op = "text:patch"
    /\ \/ ev'.threw
       \/ ev'.roomId = Undefined
       \/ ~ev'.patchText.present
C8_MalformedDropped ==
    [][MalformedStep =>
         /\ \A r \in RoomKeys : GetOrEmpty(documents', r) = GetOrEmpty(documents, r)
         /\ \A i \in 1..Len(out') : out'[i].to = {}]_vars

\* C9 (join idempotence): join:room adds the client to the room's members
\* and changes nothing when it is one already, leaves the text of every room
\* as it was, and sends the client alone one text:sync with the room's text.
C9_JoinIdempotent ==
    [][ev'.op = "join:room" =>
         /\ rooms' = [rooms EXCEPT ![ev'.roomId] = @ \cup {ev'.client}]
         /\ (ev'.member => rooms' = rooms)
         /\ \A r \in RoomKeys : GetOrEmpty(documents', r) = GetOrEmpty(documents, r)
         /\ Len(out') = 1
         /\ out'[1].event = "text:sync"
         /\ out'[1].to = {ev'.client}
         /\ out'[1].text = Doc(ev'.roomId)]_vars

\* A client joined a room it was already in, whose text is not empty.
C9_Witness ==
    /\ ev.op = "join:room" /\ ev.member
    /\ Doc(ev.roomId) = WX
    /\ out[1].text = WX

\* C10 (lazy creation): an event for a room the map does not hold yet never
\* throws on that account and is answered as for a room whose text is empty:
\* join and request_sync send "", a patch is applied to "".
AsEmptyRoom == PatchOutcome(MapSet(documents, ev'.roomId, <<>>),
                            Data(ev'.roomId, ev'.patchText))
C10_LazyCreation ==
    [][ev'.op \in {"join:room", "text:request_sync", "text:patch"}
       /\ ev'.roomId \notin DOMAIN documents =>
         /\ ev'.op \in {"join:room", "text:request_sync"} =>
              /\ ~ev'.threw
              /\ out' = <<Emitted("text:sync", "client", ev'.roomId, ev'.client,
                                  {ev'.client}, <<>>, AbsentText)>>
              /\ GetOrEmpty(documents', ev'.roomId) = <<>>
         /\ PatchStep =>
              /\ AsEmptyRoom.success =>
                   /\ GetOrEmpty(documents', ev'.roomId) = AsEmptyRoom.newDoc
                   /\ out'[1].event = "text:patch"
              /\ ~AsEmptyRoom.success =>
                   /\ GetOrEmpty(documents', ev'.roomId) = <<>>
                   /\ out'[1].event = "text:sync" /\ out'[1].text = <<>>]_vars

\* request_sync was the first reference to a room: it was answered with ""
\* and the map still does not hold the room.
C10_Witness ==
    /\ ev.op = "text:request_sync"
    /\ ev.roomId \in Rooms
    /\ ev.roomId \notin DOMAIN documents
    /\ out[1].text = <<>>
    /\ \E r \in Rooms : Doc(r) = W

\* The accepted patches of a log folded over a text, rejected ones skipped.
RECURSIVE FoldPatches(_, _)
FoldPatches(texts, acc) ==
    IF texts = <<>> THEN acc
    ELSE LET a == patch_apply(patch_fromText(Head(texts)).patches, acc) IN
         FoldPatches(Tail(texts),
                     IF \A i \in 1..Len(a.results) : a.results[i]
                     THEN a.text ELSE acc)

\* C2 (convergence): the text of every room is the fold, from the empty
\* text and in arrival order, of the patches submitted for that room, each
\* taken if all its hunks apply and skipped otherwise; joins, sync requests,
\* connections and the senders play no part.
C2_FoldOfAccepted ==
    \A r \in RoomKeys : Doc(r) = FoldPatches(log[r], <<>>)

\* Two patches arrived for a room, the second was rejected after a partial
\* application, and the other room holds a different text.
C2_Witness ==
    /\ log["r1"] = <<PNew, PTwo>>
    /\ Doc("r1") = W
    /\ Cardinality(rooms["r1"]) = 1

\* C7 (no missed update): a member of a room has been sent, as text:patch
\* events and in commit order, exactly the patches of other clients committed
\* to the room since the last text:sync for the room was sent to it.
C7_NoMissedUpdate ==
    \A c \in Clients, r \in RoomKeys : c \in rooms[r] => got[c][r] = owed[c][r]

\* A member is owed two patches and has been sent both, while the other
\* client, not a member, is owed a patch it was not sent.
C7_Witness ==
    /\ "c1" \in rooms["r1"]
    /\ owed["c1"]["r1"] = <<PNew, PMid>>
    /\ got["c1"]["r1"] = <<PNew, PMid>>

\* C6 (client convergence), as claimed: when nothing is in flight in either
\* direction, the editor of every member of the room holds the room's text.
Quiescent == \A c \in Clients : up[c] = <<>> /\ down[c] = <<>>
C6_ClientsConverge ==
    Quiescent =>
        \A c \in rooms["r1"] : local[c].open => local[c].text = Doc("r1")

\* C11: text:request_sync changes neither the documents nor the membership
\* of any room, and emits exactly one event, a text:sync with the text of the
\* room, delivered to the requesting client alone, member of the room or not.
C11_RequestSyncFrame ==
    [][ev'.op = "text:request_sync" =>
         /\ documents' = documents
         /\ rooms' = rooms
         /\ sockets' = sockets
         /\ Len(out') = 1
         /\ out'[1].event = "text:sync"
         /\ out'[1].roomId = ev'.roomId
         /\ out'[1].text = Doc(ev'.roomId)
         /\ out'[1].to = {ev'.client}]_vars

\* A client outside the room asked for its text while two others were in
\* it, and was sent the non-empty text.
C11_Witness ==
    /\ ev.op = "text:request_sync" /\ ~ev.member
    /\ Cardinality(rooms[ev.roomId]) = 2
    /\ Doc(ev.roomId) = WX
    /\ Len(out) = 1 /\ out[1].text = WX /\ out[1].to = {ev.client}

\* C12: a connect or a disconnect changes no document, and a document
\* outlives its members: a client joining a room that has no member is sent
\* the text last committed to the room, the fold of the patches logged for it.
C12_DocumentOutlivesMembers ==
    [][/\ (sockets' # sockets => documents' = documents)
       /\ \A r \in RoomKeys :
            (rooms[r] = {} /\ rooms'[r] # {}) =>
               /\ Len(out') = 1
               /\ out'[1].event = "text:sync"
               /\ out'[1].to = rooms'[r]
               /\ out'[1].text = FoldPatches(log[r], <<>>)
               /\ GetOrEmpty(documents', r) = FoldPatches(log[r], <<>>)]_vars

\* The only connected client has just joined a room of which it is the only
\* member and was sent the text two earlier patches left there.
C12_Witness ==
    /\ sockets = {"c2"}
    /\ rooms["r1"] = {"c2"}
    /\ log["r1"] = <<PNew, PMid>>
    /\ Len(out) = 1 /\ out[1].event = "text:sync" /\ out[1].to = {"c2"}
    /\ out[1].text = WX

\* C13 (no stale overwrite), as claimed: when a client's patch replaces the
\* text of the room, the patch is the edit of a text equal to the room's text
\* before the step, and the room takes the text that edit was made for.
Committed(c) ==
    /\ up[c] # <<>>
    /\ up'[c] = Tail(up[c])
    /\ Head(up[c]).op = "text:patch"
    /\ GetOrEmpty(documents', Head(up[c]).roomId) # Doc(Head(up[c]).roomId)
C13_NoStaleOverwrite ==
    [][\A c \in Clients :
         Committed(c) =>
            \E e \in Edits :
               /\ e.patchText = Head(up[c]).patchText
               /\ e.base = Doc(Head(up[c]).roomId)
               /\ e.target = GetOrEmpty(documents', Head(up[c]).roomId)]_vars

\* C14 (room isolation): join:room, text:request_sync and text:patch for a
\* room leave the text of every other room as it was, and what they emit goes
\* only to the sender and to members of the room addressed.
C14_RoomIsolation ==
    [][ev'.op \in {"join:room", "text:request_sync", "text:patch"} =>
         /\ \A r2 \in RoomKeys \ {ev'.roomId} :
               GetOrEmpty(documents', r2) = GetOrEmpty(documents, r2)
         /\ \A i \in 1..Len(out') : \A c \in out'[i].to :
               c = ev'.client \/ c \in rooms'[ev'.roomId]]_vars

\* A member's patch replaced the text of its room while the other client
\* was a member of the other room only, whose text is a different one.
C14_Witness ==
    /\ ev.op = "text:patch" /\ ~ev.threw /\ ev.member
    /\ ev.roomId \in Rooms
    /\ Len(out) = 1 /\ out[1].event = "text:patch" /\ out[1].to = {}
    /\ Doc(ev.roomId) = <<>>
    /\ \E r2 \in Rooms \ {ev.roomId} :
          /\ Doc(r2) = W
          /\ rooms[r2] \ rooms[ev.roomId] # {}
          /\ ev.client \notin rooms[r2]

\* C15: every text:sync emitted carries the text its room holds when it is
\* emitted, which is also the text the room held before the step: not an
\* earlier text, and not what patch_apply returned for a rejected patch.
C15_SyncCarriesCurrent ==
    [][\A i \in 1..Len(out') :
         out'[i].event = "text:sync" =>
            /\ out'[i].text = GetOrEmpty(documents', out'[i].roomId)
            /\ out'[i].text = GetOrEmpty(documents, out'[i].roomId)]_vars

\* A patch was rejected after its first hunk had applied, and the three
\* members were sent W, the text an earlier patch had given the room, while
\* patch_apply had returned WX.
C15_Witness ==
    /\ ev.op = "text:patch" /\ ~ev.threw
    /\ Len(out) = 1 /\ out[1].event = "text:sync"
    /\ Cardinality(out[1].to) = 3
    /\ out[1].text = W
    /\ LastResults.text = WX

\* C16: a text:patch from a client outside the room is decided on the room's
\* text like any other; accepted, it replaces the text and goes as text:patch
\* to every member of the room; rejected, it leaves the documents alone.
C16_NoMembershipCheck ==
    [][PatchStep /\ ~ev'.member =>
         /\ AcceptedStep =>
               /\ documents' = MapSet(documents, ev'.roomId, HunkResults.text)
               /\ Len(out') = 1
               /\ out'[1].event = "text:patch"
               /\ out'[1].to = rooms[ev'.roomId]
         /\ RejectedStep =>
               /\ documents' = documents
               /\ Len(out') = 1
               /\ out'[1].event = "text:sync"]_vars

\* A client outside the room changed its text, and both members were sent
\* the patch.
C16_Witness ==
    /\ ev.op = "text:patch" /\ ~ev.threw /\ ~ev.member
    /\ ev.client \notin rooms[ev.roomId]
    /\ Len(out) = 1 /\ out[1].event = "text:patch"
    /\ Cardinality(out[1].to) = 2
    /\ Doc(ev.roomId) = WY

\* C17: a text:patch that decodes to no hunk is accepted: the text of the
\* room stays what it was, the patchText goes as text:patch to the other
\* members, and no text:sync is sent.
NoHunkStep == PatchStep /\ patch_fromText(ev'.patchText).patches = <<>>
C17_EmptyPatchAccepted ==
    [][NoHunkStep =>
         /\ \A r \in RoomKeys : GetOrEmpty(documents', r) = GetOrEmpty(documents, r)
         /\ Len(out') = 1
         /\ out'[1].event = "text:patch"
         /\ out'[1].patchText = ev'.patchText
         /\ out'[1].to = rooms[ev'.roomId] \ {ev'.client}]_vars

\* A member sent the empty patch text to a room holding W and the other
\* two members were sent it.
C17_Witness ==
    /\ ev.op = "text:patch" /\ ~ev.threw /\ ev.member
    /\ ev.patchText = EmptyText
    /\ Doc(ev.roomId) = W
    /\ Len(out) = 1 /\ out[1].event = "text:patch"
    /\ out[1].patchText = EmptyText
    /\ Cardinality(out[1].to) = 2

====
